---- MODULE Spec2Model ----
(***************************************************************************)
(* Model of the pairs-trading repository:                                  *)
(*   - PairsTradingStrategy.__init__ / _validate_parameters and the        *)
(*     sequential signal loop of generate_signals (pairs_strategy.py);     *)
(*   - Backtester.run_backtest (back_test.py), one operator per pandas     *)
(*     statement.                                                          *)
(* Floating-point values are modelled as exact rationals <<n, d>> in       *)
(* lowest terms with d > 0; the float NaN is the pair <<0, 0>>.  NaN       *)
(* propagates through arithmetic and makes every ordered comparison false, *)
(* as it does for Python floats.                                           *)
(***************************************************************************)
EXTENDS Integers, Sequences, FiniteSets

VARIABLES
    \* ---- PairsTradingStrategy ----
    args,              \* arguments of the last constructor call, <<>> before any
    raised,            \* "none" or "ValueError": outcome of the last constructor call
    strategy,          \* <<>> or <<[lookback_period, entry_threshold, exit_threshold]>>
    pc,                \* "new", "failed", "ready", "loop", "done"
    zscore,            \* argument of generate_signals
    i,                 \* loop variable of generate_signals (0-based, as in the code)
    current_position,  \* local of generate_signals
    signals,           \* local / return value of generate_signals
    \* ---- Backtester ----
    bt,                \* the Backtester object: its configuration
    prices_a, prices_b, bt_signals, hedge_ratio,   \* arguments of run_backtest
    aligned_data,      \* local of run_backtest: the frame left by dropna()
    pre_cost,          \* local portfolio_returns before the costs are subtracted
    result,            \* dictionary returned by run_backtest
    last_call,         \* "none", "__init__", "run_backtest": the last Backtester call
    \* ---- PairsTradingStrategy.calculate_spread ----
    sp_prices_a, sp_prices_b, sp_hedge_ratio,   \* arguments of calculate_spread
    sp_aligned,        \* what _align_series returned to it: <<aligned_a, aligned_b>>
    spread,            \* the series it returned
    sp_call,           \* "idle", "called", "returned"
    \* ---- PairsTradingStrategy.calculate_zscore ----
    z_lookback,        \* self.lookback_period
    z_spread,          \* argument of calculate_zscore
    z_out,             \* the series it returned
    z_call,            \* "idle", "called", "returned"
    \* ---- DataLoader ----
    dl_args,           \* <<>> or <<[start_date, end_date, interval]>>: constructor arguments
    dl_now,            \* pd.Timestamp.now() at the call, in days
    dl_raised,         \* "none" or "ValueError"
    dl_object,         \* <<>> or <<[start_date, end_date, interval]>>: the object built
    dl_call            \* "idle", "called", "returned"

svars == <<args, raised, strategy, pc, zscore, i, current_position, signals>>
bvars == <<bt, prices_a, prices_b, bt_signals, hedge_ratio, aligned_data, pre_cost, result,
           last_call>>
pvars == <<sp_prices_a, sp_prices_b, sp_hedge_ratio, sp_aligned, spread, sp_call>>
zvars == <<z_lookback, z_spread, z_out, z_call>>
dvars == <<dl_args, dl_now, dl_raised, dl_object, dl_call>>
vars == <<svars, bvars, pvars, zvars, dvars>>

\* calculate_spread, calculate_zscore and DataLoader not in use.
PIdle ==
    /\ sp_prices_a = <<>>
    /\ sp_prices_b = <<>>
    /\ sp_hedge_ratio = <<0, 0>>
    /\ sp_aligned = <<>>
    /\ spread = <<>>
    /\ sp_call = "idle"

ZIdle ==
    /\ z_lookback = 0
    /\ z_spread = <<>>
    /\ z_out = <<>>
    /\ z_call = "idle"

DIdle ==
    /\ dl_args = <<>>
    /\ dl_now = <<0, 1>>
    /\ dl_raised = "none"
    /\ dl_object = <<>>
    /\ dl_call = "idle"

-----------------------------------------------------------------------------
(* Bounds *)
MaxLen == 3          \* longest exhaustively enumerated z-score series
MaxT == 4            \* longest price series given to run_backtest

-----------------------------------------------------------------------------
(* Float arithmetic *)

RECURSIVE GCD(_, _)
GCD(a, b) == IF b = 0 THEN a ELSE GCD(b, a % b)

AbsInt(n) == IF n < 0 THEN -n ELSE n

NaN == <<0, 0>>

isna(x) == x[2] = 0

Norm(n, d) ==
    IF d = 0 THEN NaN
    ELSE LET g == GCD(AbsInt(n), AbsInt(d))
             s == IF d < 0 THEN -1 ELSE 1
         IN  <<(s * n) \div g, (s * d) \div g>>

Num(n) == <<n, 1>>

Add(x, y) == IF isna(x) \/ isna(y) THEN NaN
             ELSE Norm(x[1] * y[2] + y[1] * x[2], x[2] * y[2])

Neg(x) == IF isna(x) THEN NaN ELSE <<-x[1], x[2]>>

Sub(x, y) == Add(x, Neg(y))

Mul(x, y) == IF isna(x) \/ isna(y) THEN NaN
             ELSE Norm(x[1] * y[1], x[2] * y[2])

\* Division; the model only divides by non-zero numbers (prices are positive,
\* initial_capital is positive).
Div(x, y) == IF isna(x) \/ isna(y) THEN NaN
             ELSE Norm(x[1] * y[2], x[2] * y[1])

AbsN(x) == IF isna(x) THEN NaN ELSE <<AbsInt(x[1]), x[2]>>

\* Ordered comparisons: False whenever an operand is NaN.
Gt(x, y) == ~isna(x) /\ ~isna(y) /\ x[1] * y[2] > y[1] * x[2]
Lt(x, y) == ~isna(x) /\ ~isna(y) /\ x[1] * y[2] < y[1] * x[2]
Le(x, y) == ~isna(x) /\ ~isna(y) /\ x[1] * y[2] <= y[1] * x[2]
\* != : True whenever an operand is NaN.
Ne(x, y) == isna(x) \/ isna(y) \/ x # y

-----------------------------------------------------------------------------
(* PairsTradingStrategy *)

\* Inputs offered to the constructor.
Lookbacks == {19, 20, 60}
Thresholds == {<<1, 2>>, <<1, 1>>, <<2, 1>>}

\* _validate_parameters: "ValueError" when it raises, "none" when it returns.
ValidateParametersLt(lookback_period, entry_threshold, exit_threshold) ==
    IF Lt(entry_threshold, exit_threshold) THEN "ValueError"
    ELSE IF lookback_period < 20 THEN "ValueError"
    ELSE "none"

ValidateParameters(lookback_period, entry_threshold, exit_threshold) ==
    IF Le(entry_threshold, exit_threshold) THEN "ValueError"
    ELSE IF lookback_period < 20 THEN "ValueError"
    ELSE "none"

\* __init__: stores the three attributes, then validates; when validation
\* raises, the caller gets no object.
Construct(lb, en, ex) ==
    /\ pc = "new"
    /\ args' = <<[lookback_period |-> lb, entry_threshold |-> en, exit_threshold |-> ex]>>
    /\ raised' = ValidateParameters(lb, en, ex)
    /\ IF raised' = "none"
         THEN /\ strategy' = args'
              /\ pc' = "ready"
         ELSE /\ strategy' = <<>>
              /\ pc' = "failed"
    /\ UNCHANGED <<zscore, i, current_position, signals>>
    /\ UNCHANGED <<bvars, pvars, zvars, dvars>>

\* z-scores offered to generate_signals: NaN, and values above, at, between
\* and below the thresholds, of both signs.
ZValues == {NaN,
            <<5, 2>>, <<2, 1>>, <<1, 1>>, <<1, 2>>, <<3, 10>>,
            <<-5, 2>>, <<-2, 1>>, <<-1, 1>>, <<-1, 2>>, <<-3, 10>>}

RECURSIVE SeqsUpTo(_, _)
SeqsUpTo(S, n) ==
    IF n = 0 THEN {<<>>}
    ELSE LET shorter == SeqsUpTo(S, n - 1)
         IN  shorter \cup {Append(q, x) : q \in {r \in shorter : Len(r) = n - 1}, x \in S}

ExampleZ == <<NaN, NaN, <<5, 2>>, <<1, 1>>, <<3, 10>>, <<-5, 2>>, <<1, 5>>>>

ZInputs == SeqsUpTo(ZValues, MaxLen) \cup {ExampleZ}

\* generate_signals, lines 172-174: signals = pd.Series(0, index=zscore.index),
\* current_position = 0.
GenerateSignals(z) ==
    /\ pc = "ready"
    /\ zscore' = z
    /\ signals' = [k \in 1..Len(z) |-> 0]
    /\ current_position' = 0
    /\ i' = 0
    /\ pc' = "loop"
    /\ UNCHANGED <<args, raised, strategy>>
    /\ UNCHANGED <<bvars, pvars, zvars, dvars>>

\* Body of the for loop, lines 176-189: the value current_position has when
\* signals.iloc[i] is assigned.
LoopBodyNaFlat(cp, z, entry_threshold, exit_threshold) ==
    IF isna(z) THEN 0
    ELSE IF cp = 0
      THEN IF Gt(z, entry_threshold) THEN -1
           ELSE IF Lt(z, Neg(entry_threshold)) THEN 1
           ELSE cp
    ELSE IF Lt(AbsN(z), exit_threshold) THEN 0
    ELSE cp

LoopBodyNoAbs(cp, z, entry_threshold, exit_threshold) ==
    IF isna(z) THEN cp
    ELSE IF cp = 0
      THEN IF Gt(z, entry_threshold) THEN -1
           ELSE IF Lt(z, Neg(entry_threshold)) THEN 1
           ELSE cp
    ELSE IF Lt(z, exit_threshold) THEN 0
    ELSE cp

LoopBodyAccumulate(cp, z, entry_threshold, exit_threshold) ==
    IF isna(z) THEN cp
    ELSE IF Gt(z, entry_threshold) THEN cp - 1
    ELSE IF Lt(z, Neg(entry_threshold)) THEN cp + 1
    ELSE IF Lt(AbsN(z), exit_threshold) THEN 0
    ELSE cp

LoopBodyInclusive(cp, z, entry_threshold, exit_threshold) ==
    IF isna(z) THEN cp
    ELSE IF cp = 0
      THEN IF ~Lt(z, entry_threshold) THEN -1
           ELSE IF ~Gt(z, Neg(entry_threshold)) THEN 1
           ELSE cp
    ELSE IF Le(AbsN(z), exit_threshold) THEN 0
    ELSE cp

LoopBodyFlip(cp, z, entry_threshold, exit_threshold) ==
    IF isna(z) THEN cp
    ELSE IF Gt(z, entry_threshold) THEN -1
    ELSE IF Lt(z, Neg(entry_threshold)) THEN 1
    ELSE IF cp # 0 /\ Lt(AbsN(z), exit_threshold) THEN 0
    ELSE cp

LoopBody(cp, z, entry_threshold, exit_threshold) ==
    IF isna(z) THEN cp
    ELSE IF cp = 0
      THEN IF Gt(z, entry_threshold) THEN -1
           ELSE IF Lt(z, Neg(entry_threshold)) THEN 1
           ELSE cp
    ELSE IF Lt(AbsN(z), exit_threshold) THEN 0
    ELSE cp

\* One iteration of "for i in range(len(zscore))", lines 175-189.
LoopIter ==
    /\ pc = "loop"
    /\ i < Len(zscore)
    /\ current_position' = LoopBody(current_position, zscore[i + 1],
                                    strategy[1].entry_threshold,
                                    strategy[1].exit_threshold)
    /\ signals' = [signals EXCEPT ![i + 1] = current_position']
    /\ i' = i + 1
    /\ UNCHANGED <<args, raised, strategy, pc, zscore>>
    /\ UNCHANGED <<bvars, pvars, zvars, dvars>>

\* Loop exhausted, line 190: return signals.
ReturnSignals ==
    /\ pc = "loop"
    /\ i = Len(zscore)
    /\ pc' = "done"
    /\ UNCHANGED <<args, raised, strategy, zscore, i, current_position, signals>>
    /\ UNCHANGED <<bvars, pvars, zvars, dvars>>

SInit ==
    /\ args = <<>>
    /\ raised = "none"
    /\ strategy = <<>>
    /\ pc = "new"
    /\ zscore = <<>>
    /\ i = 0
    /\ current_position = 0
    /\ signals = <<>>

-----------------------------------------------------------------------------
(* Backtester *)

\* Configurations offered to Backtester.__init__.
Configs ==
    [initial_capital : {Num(100)},
     transaction_cost : {<<1, 10>>},
     max_position_size : {<<1, 2>>},
     entry_threshold : {<<2, 1>>},
     exit_threshold : {<<1, 2>>}]

\* Inputs offered to run_backtest: at each timestamp 1..n a pair of positive
\* prices and a signal; NaN stands for a timestamp the signal series lacks.
PriceRows == {<<1, 2>>, <<2, 1>>}
SignalValues == {Num(-1), Num(0), Num(1), NaN}
HedgeRatios == {Num(2)}

\* No backtester yet.
BIdle ==
    /\ bt = <<>>
    /\ prices_a = <<>>
    /\ prices_b = <<>>
    /\ bt_signals = <<>>
    /\ hedge_ratio = NaN
    /\ aligned_data = <<>>
    /\ pre_cost = <<>>
    /\ result = <<>>
    /\ last_call = "none"

\* Backtester.__init__ has stored the configuration and run_backtest is about
\* to be called with prices pa, pb, signals sig and hedge ratio hr.
BacktesterReady(cfg, pa, pb, sig, hr) ==
    /\ bt = <<cfg>>
    /\ prices_a = pa
    /\ prices_b = pb
    /\ bt_signals = sig
    /\ hedge_ratio = hr
    /\ aligned_data = <<>>
    /\ pre_cost = <<>>
    /\ result = <<>>
    /\ last_call = "__init__"

\* Series.pct_change(): NaN first, then p[t] / p[t-1] - 1.
PctChange(p) ==
    [t \in 1..Len(p) |-> IF t = 1 THEN NaN ELSE Sub(Div(p[t], p[t - 1]), Num(1))]

\* DataFrame({...}).dropna(): the timestamps, in order, at which the signal
\* and both returns are defined.
DropNaIndex(sig, ra, rb) ==
    LET Defined(t) == ~isna(sig[t]) /\ ~isna(ra[t]) /\ ~isna(rb[t])
    IN  SelectSeq([t \in 1..Len(sig) |-> t], Defined)

\* A column of the aligned frame: the series restricted to the kept index.
Column(s, index) == [k \in 1..Len(index) |-> s[index[k]]]

\* Series.shift(1)
ShiftBack(s) == [k \in 1..Len(s) |-> IF k = Len(s) THEN NaN ELSE s[k + 1]]

Shift(s) == [k \in 1..Len(s) |-> IF k = 1 THEN NaN ELSE s[k - 1]]

\* Series.diff()
Diff(s) == [k \in 1..Len(s) |-> IF k = 1 THEN NaN ELSE Sub(s[k], s[k - 1])]

\* positions_a = -signal * position_value
PositionsA(signal, position_value) ==
    [k \in 1..Len(signal) |-> Mul(Neg(signal[k]), position_value)]

\* positions_b = signal * position_value * hedge_ratio
PositionsB(signal, position_value, hr) ==
    [k \in 1..Len(signal) |-> Mul(Mul(signal[k], position_value), hr)]

\* (positions_a.shift(1) * return_a + positions_b.shift(1) * return_b) / initial_capital
PortfolioReturns(pos_a, pos_b, ra, rb, initial_capital) ==
    [k \in 1..Len(ra) |->
        Div(Add(Mul(Shift(pos_a)[k], ra[k]), Mul(Shift(pos_b)[k], rb[k])),
            initial_capital)]

\* signal.diff().abs() * transaction_cost
TransactionCostsSigned(signal, transaction_cost) ==
    [k \in 1..Len(signal) |-> Mul(Diff(signal)[k], transaction_cost)]

TransactionCosts(signal, transaction_cost) ==
    [k \in 1..Len(signal) |-> Mul(AbsN(Diff(signal)[k]), transaction_cost)]

\* Series.cumprod(), skipna: NaN stays NaN where it is and is left out of
\* the running product.
RECURSIVE RunningProduct(_, _)
RunningProduct(s, k) ==
    IF k = 0 THEN Num(1)
    ELSE IF isna(s[k]) THEN RunningProduct(s, k - 1)
    ELSE Mul(RunningProduct(s, k - 1), s[k])

CumProd(s) == [k \in 1..Len(s) |-> IF isna(s[k]) THEN NaN ELSE RunningProduct(s, k)]

\* equity = initial_capital * (1 + portfolio_returns).cumprod()
Equity(returns, initial_capital) ==
    LET growth == CumProd([k \in 1..Len(returns) |-> Add(Num(1), returns[k])])
    IN  [k \in 1..Len(returns) |-> Mul(initial_capital, growth[k])]

\* trades[trades != 0].index
TradeDates(signal, index) ==
    LET trades == Diff(signal)
        Changed(k) == Ne(trades[k], Num(0))
    IN  Column(index, SelectSeq([k \in 1..Len(signal) |-> k], Changed))

\* run_backtest as a function of the object and its arguments: the columns of
\* aligned_data with their index (which every returned series shares),
\* portfolio_returns before the costs are subtracted (pre_cost), and the
\* entries of the returned dictionary.
Backtest(cfg, pa, pb, sig, hr) ==
    LET returns_a == PctChange(pa)
        returns_b == PctChange(pb)
        index == DropNaIndex(sig, returns_a, returns_b)
        signal == Column(sig, index)
        return_a == Column(returns_a, index)
        return_b == Column(returns_b, index)
        position_value == Mul(cfg.initial_capital, cfg.max_position_size)
        positions_a == PositionsA(signal, position_value)
        positions_b == PositionsB(signal, position_value, hr)
        gross == PortfolioReturns(positions_a, positions_b, return_a, return_b,
                                  cfg.initial_capital)
        transaction_costs == TransactionCosts(signal, cfg.transaction_cost)
        portfolio_returns == [k \in 1..Len(index) |-> Sub(gross[k], transaction_costs[k])]
    IN  [index |-> index,
         signal |-> signal,
         return_a |-> return_a,
         return_b |-> return_b,
         pre_cost |-> gross,
         equity |-> Equity(portfolio_returns, cfg.initial_capital),
         returns |-> portfolio_returns,
         positions_a |-> positions_a,
         positions_b |-> positions_b,
         trades |-> TradeDates(signal, index)]

\* run_backtest, lines 61-104.
RunBacktest ==
    /\ last_call = "__init__"
    /\ \E r \in {Backtest(bt[1], prices_a, prices_b, bt_signals, hedge_ratio)} :
           /\ aligned_data' = [index |-> r.index, signal |-> r.signal,
                               return_a |-> r.return_a, return_b |-> r.return_b]
           /\ pre_cost' = r.pre_cost
           /\ result' = [equity |-> r.equity, returns |-> r.returns,
                         positions_a |-> r.positions_a, positions_b |-> r.positions_b,
                         trades |-> r.trades]
    /\ last_call' = "run_backtest"
    /\ UNCHANGED <<bt, prices_a, prices_b, bt_signals, hedge_ratio>>
    /\ UNCHANGED <<svars, pvars, zvars, dvars>>

\* The inputs: every configuration, every pair of price series and signal
\* series over the timestamps 1..n, n <= MaxT (longest first).
BInit ==
    \E cfg \in Configs, hr \in HedgeRatios, short \in 0..MaxT :
      \E rows \in [1..(MaxT - short) -> PriceRows],
         sig \in [1..(MaxT - short) -> SignalValues] :
        BacktesterReady(cfg,
                        [t \in 1..(MaxT - short) |-> Num(rows[t][1])],
                        [t \in 1..(MaxT - short) |-> Num(rows[t][2])],
                        sig, hr)

BacktestInit == SInit /\ BInit /\ PIdle /\ ZIdle /\ DIdle

BNext == RunBacktest

SpecBacktest == BacktestInit /\ [][BNext]_vars

-----------------------------------------------------------------------------
(* Specification of the strategy object and its signal loop *)

Init == SInit /\ BIdle /\ PIdle /\ ZIdle /\ DIdle

Next ==
    \/ pc = "new" /\ \E lb \in Lookbacks, en \in Thresholds, ex \in Thresholds :
                        Construct(lb, en, ex)
    \/ pc = "ready" /\ \E z \in ZInputs : GenerateSignals(z)
    \/ LoopIter
    \/ ReturnSignals

Spec == Init /\ [][Next]_vars

-----------------------------------------------------------------------------
(* Claims about generate_signals and the constructor *)

\* The state machine of the specification, as a function of the whole prefix
\* read so far: Flat before anything is read.
FoldStep(state, z, entry, exit) ==
    IF isna(z) THEN state
    ELSE IF state = 0 /\ Gt(z, entry) THEN -1
    ELSE IF state = 0 /\ Lt(z, Neg(entry)) THEN 1
    ELSE IF state # 0 /\ Lt(z, exit) /\ Gt(z, Neg(exit)) THEN 0
    ELSE state

RECURSIVE FoldState(_, _, _)
FoldState(zs, entry, exit) ==
    IF zs = <<>> THEN 0
    ELSE FoldStep(FoldState(SubSeq(zs, 1, Len(zs) - 1), entry, exit),
                  zs[Len(zs)], entry, exit)

Started == pc \in {"loop", "done"}

\* C1: generate_signals computes the left fold from Flat over the z-scores:
\* after i iterations the carried position is the fold of the first i
\* z-scores and signals[k], k <= i, is the fold of the first k (the
\* post-transition state); the worked example yields [0, 0, -1, -1, 0, 1, 0].
C1_SignalsAreFold ==
    Started =>
      LET en == strategy[1].entry_threshold
          ex == strategy[1].exit_threshold
      IN  /\ current_position = FoldState(SubSeq(zscore, 1, i), en, ex)
          /\ \A k \in 1..i : signals[k] = FoldState(SubSeq(zscore, 1, k), en, ex)
          /\ (pc = "done" /\ zscore = ExampleZ /\ en = <<2, 1>> /\ ex = <<1, 2>>)
               => signals = <<0, 0, -1, -1, 0, 1, 0>>

C1_Witness ==
    /\ pc = "done"
    /\ zscore = ExampleZ
    /\ strategy[1].entry_threshold = <<2, 1>>
    /\ strategy[1].exit_threshold = <<1, 2>>
    /\ signals = <<0, 0, -1, -1, 0, 1, 0>>

\* C2: an iteration that reads an Undefined z-score leaves the carried
\* position unchanged and emits the signal of the previous position (Flat at
\* the first position).
C2_UndefinedKeepsState ==
    [][(pc = "loop" /\ i < Len(zscore) /\ isna(zscore[i + 1]))
         => /\ current_position' = current_position
            /\ signals'[i + 1] = (IF i = 0 THEN 0 ELSE signals[i])]_vars

C2_Witness ==
    /\ Started
    /\ i >= 3
    /\ isna(zscore[i]) /\ isna(zscore[i - 1])
    /\ current_position # 0
    /\ signals[i] = signals[i - 2]

\* C3: the carried position and every value of the signal series are in
\* {-1, 0, 1}, whatever the lookback window and the thresholds.
C3_SignalRange ==
    Started =>
      /\ current_position \in {-1, 0, 1}
      /\ \A k \in 1..Len(signals) : signals[k] \in {-1, 0, 1}

C3_Witness ==
    /\ pc = "done"
    /\ strategy[1].lookback_period = 20
    /\ \E j, k \in 1..Len(signals) : signals[j] = -1 /\ signals[k] = 1

\* C4: a z-score exactly equal to a threshold triggers no transition: from
\* Flat z = entry or z = -entry stays Flat, from Long or Short |z| = exit
\* keeps the position.
AtThreshold(cp, z, entry, exit) ==
    \/ cp = 0 /\ (z = entry \/ z = Neg(entry))
    \/ cp # 0 /\ (z = exit \/ z = Neg(exit))

C4_StrictBoundaries ==
    [][(/\ pc = "loop"
        /\ i < Len(zscore)
        /\ AtThreshold(current_position, zscore[i + 1],
                       strategy[1].entry_threshold, strategy[1].exit_threshold))
         => /\ current_position' = current_position
            /\ signals'[i + 1] = current_position]_vars

C4_Witness ==
    /\ Started
    /\ i = 3
    /\ zscore[1] = strategy[1].entry_threshold
    /\ signals[1] = 0
    /\ signals[2] # 0
    /\ zscore[3] = Neg(strategy[1].exit_threshold)
    /\ signals[3] = signals[2]

\* C5: the constructor raises exactly when entry_threshold <= exit_threshold
\* or lookback_period < 20; it rejects entry 0.5 / exit 2.0, accepts entry
\* 2.0 / exit 0.5, and every existing strategy has entry > exit and
\* lookback >= 20.
C5_ConstructorValidation ==
    /\ args # <<>> =>
         LET lb == args[1].lookback_period
             en == args[1].entry_threshold
             ex == args[1].exit_threshold
         IN  /\ (raised = "ValueError") <=> (~Gt(en, ex) \/ lb < 20)
             /\ (raised = "none") <=> (strategy = args)
             /\ (en = <<1, 2>> /\ ex = <<2, 1>>) => (raised = "ValueError" /\ strategy = <<>>)
             /\ (en = <<2, 1>> /\ ex = <<1, 2>> /\ lb >= 20) => strategy = args
    /\ strategy # <<>> =>
         /\ Gt(strategy[1].entry_threshold, strategy[1].exit_threshold)
         /\ strategy[1].lookback_period >= 20

C5_Witness ==
    /\ raised = "ValueError"
    /\ strategy = <<>>
    /\ args # <<>>
    /\ args[1].entry_threshold = <<1, 2>>
    /\ args[1].exit_threshold = <<2, 1>>
    /\ args[1].lookback_period = 60

-----------------------------------------------------------------------------
(* Claims about run_backtest *)

Returned == last_call = "run_backtest"

\* <<v>> when the series (index, values) has value v at timestamp t, <<>> when
\* t is not in its index.
ValueAt(index, values, t) ==
    IF \E k \in 1..Len(index) : index[k] = t
      THEN <<values[CHOOSE k \in 1..Len(index) : index[k] = t]>>
      ELSE <<>>

\* The two results agree, in returns and equity, at every timestamp up to t.
AgreeUpTo(r1, r2, t) ==
    \A u \in 1..t :
      /\ ValueAt(r1.index, r1.returns, u) = ValueAt(r2.index, r2.returns, u)
      /\ ValueAt(r1.index, r1.equity, u) = ValueAt(r2.index, r2.equity, u)

C7_FlatEquityConstant ==
    (Returned /\ \A t \in 1..Len(bt_signals) : bt_signals[t] = Num(0))
      => \A k \in 1..Len(result.equity) : result.equity[k] = bt[1].initial_capital

\* C8: the equity curve starts with initial_capital and is one longer than
\* the return series.
C8_EquityStartsAtCapital ==
    Returned =>
      /\ Len(result.equity) = Len(result.returns) + 1
      /\ result.equity[1] = bt[1].initial_capital

\* C9: the trade list holds exactly the timestamps of the aligned window
\* whose signal differs from the signal at the preceding timestamp of the
\* window; the first timestamp, which has no predecessor, is not in it.
C9_TradesAreSignalChanges ==
    Returned =>
      LET index == aligned_data.index
          sig == aligned_data.signal
          Changed(k) == k >= 2 /\ sig[k] # sig[k - 1]
      IN  result.trades = Column(index, SelectSeq([k \in 1..Len(index) |-> k], Changed))

-----------------------------------------------------------------------------
(* PairsTradingStrategy._align_series and calculate_spread *)

\* A price series is a function from its index, a set of timestamps, to
\* values, NaN included.
MaxTs == 3           \* timestamps 1..MaxTs may occur in an index

SeriesOver(T, V) == UNION {[D -> V] : D \in SUBSET T}

SpreadPrices == {Num(1), Num(2), NaN}

\* prices_a.index.intersection(prices_b.index), line 38
CommonDates(pa, pb) == DOMAIN pa \cap DOMAIN pb

\* pd.DataFrame({'a': aligned_a, 'b': aligned_b}).dropna(), lines 40-44: the
\* rows of the common dates at which both values are defined.
Combined(pa, pb) ==
    LET common_dates == CommonDates(pa, pb)
        aligned_a == [t \in common_dates |-> pa[t]]
        aligned_b == [t \in common_dates |-> pb[t]]
        kept == {t \in common_dates : ~isna(aligned_a[t]) /\ ~isna(aligned_b[t])}
    IN  [a |-> [t \in kept |-> aligned_a[t]], b |-> [t \in kept |-> aligned_b[t]]]

\* _align_series: builds combined, then returns its two arguments (line 46;
\* the return of combined['a'], combined['b'] is commented out, line 45).
AlignSeries(pa, pb) ==
    LET combined == Combined(pa, pb)
    IN  <<pa, pb>>

\* scalar * Series: same index.
ScalarTimes(h, a) == [t \in DOMAIN a |-> Mul(h, a[t])]

\* Series - Series: the union of the two indexes, NaN where either series
\* has no value or an undefined one.
SeriesMinus(b, a) ==
    [t \in DOMAIN a \cup DOMAIN b |->
        IF t \in DOMAIN a \cap DOMAIN b THEN Sub(b[t], a[t]) ELSE NaN]

\* calculate_spread is called with pa, pb, hr.
SpreadCalled(pa, pb, hr) ==
    /\ sp_prices_a = pa
    /\ sp_prices_b = pb
    /\ sp_hedge_ratio = hr
    /\ sp_aligned = <<>>
    /\ spread = <<>>
    /\ sp_call = "called"

\* calculate_spread, lines 132-134.
CalculateSpread ==
    /\ sp_call = "called"
    /\ sp_aligned' = AlignSeries(sp_prices_a, sp_prices_b)
    /\ spread' = SeriesMinus(sp_aligned'[2], ScalarTimes(sp_hedge_ratio, sp_aligned'[1]))
    /\ sp_call' = "returned"
    /\ UNCHANGED <<sp_prices_a, sp_prices_b, sp_hedge_ratio>>
    /\ UNCHANGED <<svars, bvars, zvars, dvars>>

SpreadInit ==
    /\ SInit /\ BIdle /\ ZIdle /\ DIdle
    /\ \E pa \in SeriesOver(1..MaxTs, SpreadPrices),
          pb \in SeriesOver(1..MaxTs, SpreadPrices),
          hr \in HedgeRatios :
         SpreadCalled(pa, pb, hr)

SpreadNext == CalculateSpread

SpecSpread == SpreadInit /\ [][SpreadNext]_vars

\* C11: the joint computations work on the two series restricted to their
\* common timestamps without the rows that have an undefined value, and
\* the spread is indexed by exactly those timestamps, with the defined
\* value B[t] - hedge_ratio * A[t] at each.
C11_SpreadOnAlignedIndex ==
    sp_call = "returned" =>
      LET a == sp_prices_a
          b == sp_prices_b
          common == {t \in DOMAIN a \cap DOMAIN b : ~isna(a[t]) /\ ~isna(b[t])}
      IN  /\ sp_aligned = <<[t \in common |-> a[t]], [t \in common |-> b[t]]>>
          /\ DOMAIN spread = common
          /\ \A t \in common :
               /\ ~isna(spread[t])
               /\ spread[t] = Sub(b[t], Mul(sp_hedge_ratio, a[t]))

-----------------------------------------------------------------------------
(* PairsTradingStrategy.calculate_zscore *)

MaxExtra == 2        \* the spread is at most this much longer than the window
MaxSpecial == 1      \* positions of a spread that depart from its base pattern

\* Lookback periods of the strategy object (each accepted by the constructor).
ZLookbacks == {lb \in {20, 21} : ValidateParameters(lb, <<2, 1>>, <<1, 2>>) = "none"}

\* Spread series offered: a flat or an alternating series of a given length,
\* with up to n positions replaced by an outlier or by NaN.
SpecialValues == {Num(3), NaN}

RECURSIVE Perturbed(_, _)
Perturbed(S, n) ==
    IF n = 0 THEN S
    ELSE Perturbed(S \cup {[q EXCEPT ![p] = v] :
                             q \in S, p \in 1..MaxExtra + 21, v \in SpecialValues}, n - 1)

BaseSpreads(len) == {[k \in 1..len |-> Num(1)], [k \in 1..len |-> Num(1 + (k % 2))]}

ZSpreads(w) ==
    UNION {{SubSeq(q, 1, w + extra) : q \in Perturbed(BaseSpreads(MaxExtra + 21), MaxSpecial)} :
             extra \in 0..MaxExtra}

\* The trailing window of rolling(window=w) ending at position k.
Window(s, k, w) == SubSeq(s, IF k > w THEN k - w + 1 ELSE 1, k)

\* Its observations: NaN is left out.
Observations(win) == SelectSeq(win, LAMBDA x : ~isna(x))

\* rolling(window=w): min_periods defaults to the window size.
MinPeriodsOne(w) == 1

MinPeriods(w) == w

RECURSIVE SumSeq(_)
SumSeq(q) == IF q = <<>> THEN Num(0) ELSE Add(q[1], SumSeq(Tail(q)))

\* spread.rolling(window).mean(), line 151
RollingMean(s, w) ==
    [k \in 1..Len(s) |->
        LET obs == Observations(Window(s, k, w))
        IN  IF Len(obs) < MinPeriods(w) THEN NaN
            ELSE Div(SumSeq(obs), Num(Len(obs)))]

\* The square of spread.rolling(window).std(), line 152: the sample variance
\* (n - 1 denominator) of the window.
RollingVar(s, w) ==
    [k \in 1..Len(s) |->
        LET obs == Observations(Window(s, k, w))
            mean == Div(SumSeq(obs), Num(Len(obs)))
            sq == [j \in 1..Len(obs) |-> Mul(Sub(obs[j], mean), Sub(obs[j], mean))]
        IN  IF Len(obs) < MinPeriods(w) THEN NaN
            ELSE Div(SumSeq(sq), Num(Len(obs) - 1))]

\* (spread - rolling_mean) / rolling_std, line 153.  The quotient z is kept
\* as the rational z * |z| = d * |d| / var, which is defined exactly when z
\* is and has its sign and order.  A zero variance makes d zero as well, and
\* 0 / 0 is NaN.
ZScoreValue(x, mean, var) ==
    LET d == Sub(x, mean)
    IN  Div(Mul(d, AbsN(d)), var)

\* calculate_zscore, lines 151-154.
ZScore(s, w) ==
    LET rolling_mean == RollingMean(s, w)
        rolling_var == RollingVar(s, w)
    IN  [k \in 1..Len(s) |-> ZScoreValue(s[k], rolling_mean[k], rolling_var[k])]

\* calculate_zscore is called with s on a strategy whose lookback_period is w.
ZScoreCalled(w, s) ==
    /\ z_lookback = w
    /\ z_spread = s
    /\ z_out = <<>>
    /\ z_call = "called"

CalculateZScore ==
    /\ z_call = "called"
    /\ z_out' = ZScore(z_spread, z_lookback)
    /\ z_call' = "returned"
    /\ UNCHANGED <<z_lookback, z_spread>>
    /\ UNCHANGED <<svars, bvars, pvars, dvars>>

ZScoreInit ==
    /\ SInit /\ BIdle /\ PIdle /\ DIdle
    /\ \E w \in ZLookbacks : \E s \in ZSpreads(w) : ZScoreCalled(w, s)

ZScoreNext == CalculateZScore

SpecZScore == ZScoreInit /\ [][ZScoreNext]_vars

\* C12 as stated: for a spread at least lookback_period long, the Undefined
\* positions of the z-score are exactly the first lookback_period - 1.
C12_UndefinedExactlyWarmup ==
    (z_call = "returned" /\ Len(z_spread) >= z_lookback) =>
      /\ Len(z_out) = Len(z_spread)
      /\ \A k \in 1..Len(z_out) : isna(z_out[k]) <=> k < z_lookback

\* C12 as amended: the first lookback_period - 1 positions are Undefined, and
\* a later position is Undefined exactly when the lookback_period values
\* ending at it include an undefined value or are all equal (zero variance).
C12_UndefinedWarmupOrDegenerate ==
    (z_call = "returned" /\ Len(z_spread) >= z_lookback) =>
      /\ Len(z_out) = Len(z_spread)
      /\ \A k \in 1..Len(z_out) :
           isna(z_out[k]) <=>
             \/ k < z_lookback
             \/ \E j \in (k - z_lookback + 1)..k : isna(z_spread[j])
             \/ \A j \in (k - z_lookback + 1)..k : z_spread[j] = z_spread[k]

C12_Witness ==
    /\ z_call = "returned"
    /\ Len(z_spread) > z_lookback
    /\ \A j \in 1..Len(z_spread) : ~isna(z_spread[j])
    /\ \A k \in 1..(z_lookback - 1) : isna(z_out[k])
    /\ ~isna(z_out[z_lookback])
    /\ isna(z_out[Len(z_out)])

-----------------------------------------------------------------------------
(* DataLoader.__init__ and _validate_inputs *)

\* A date string 'YYYY-MM-DD' is the triple <<YYYY, MM, DD>>.
IsLeap(y) == (y % 4 = 0 /\ y % 100 # 0) \/ y % 400 = 0

DaysInMonth(y, m) ==
    IF m = 2 THEN (IF IsLeap(y) THEN 29 ELSE 28)
    ELSE IF m \in {4, 6, 9, 11} THEN 30 ELSE 31

RECURSIVE DaysBeforeMonth(_, _)
DaysBeforeMonth(y, m) ==
    IF m = 1 THEN 0 ELSE DaysBeforeMonth(y, m - 1) + DaysInMonth(y, m - 1)

\* pd.to_datetime(s, format='%Y-%m-%d'): midnight of the day, as the number
\* of the day in the proleptic Gregorian calendar.
ToDatetime(date) ==
    LET y == date[1] - 1
    IN  365 * y + (y \div 4) - (y \div 100) + (y \div 400)
          + DaysBeforeMonth(date[1], date[2]) + date[3]

valid_intervals ==
    {"1m", "2m", "5m", "15m", "30m", "60m", "90m", "1h", "1d", "5d", "1wk", "1mo", "3mo"}

intraday_intervals == {"1m", "2m", "5m", "15m", "30m", "60m", "90m", "1h"}

\* Arguments offered to the constructor.
Dates ==
    {<<2024, 2, 28>>, <<2024, 12, 31>>, <<2025, 6, 25>>, <<2025, 6, 26>>,
     <<2025, 7, 25>>, <<2025, 8, 25>>, <<2025, 8, 26>>}

Intervals == valid_intervals \cup {"2h", "1y", ""}

\* pd.Timestamp.now(), in days: midnight or noon of a day.
Nows == {Num(ToDatetime(<<2025, 8, 25>>)),
         Add(Num(ToDatetime(<<2025, 8, 25>>)), <<1, 2>>),
         Add(Num(ToDatetime(<<2025, 6, 25>>)), <<1, 2>>)}

ValidateInputsGe(start_date, end_date, interval, now) ==
    LET start_date_obj == ToDatetime(start_date)
        end_date_obj == ToDatetime(end_date)
        duration == end_date_obj - start_date_obj
    IN  IF start_date_obj >= end_date_obj THEN "ValueError"
        ELSE IF Gt(Num(end_date_obj), now) THEN "ValueError"
        ELSE IF interval \notin valid_intervals THEN "ValueError"
        ELSE IF interval \in intraday_intervals /\ duration >= 60 THEN "ValueError"
        ELSE "none"

\* _validate_inputs, lines 27-44: the exception raised, or "none".
ValidateInputs(start_date, end_date, interval, now) ==
    LET start_date_obj == ToDatetime(start_date)
        end_date_obj == ToDatetime(end_date)
        duration == end_date_obj - start_date_obj
    IN  IF start_date_obj >= end_date_obj THEN "ValueError"
        ELSE IF Gt(Num(end_date_obj), now) THEN "ValueError"
        ELSE IF interval \notin valid_intervals THEN "ValueError"
        ELSE IF interval \in intraday_intervals /\ duration > 60 THEN "ValueError"
        ELSE "none"

\* DataLoader(start_date, end_date, interval) is called at time now.
LoaderCalled(start_date, end_date, interval, now) ==
    /\ dl_args = <<start_date, end_date, interval>>
    /\ dl_now = now
    /\ dl_raised = "none"
    /\ dl_object = <<>>
    /\ dl_call = "called"

\* __init__, lines 14-25: the attributes are set, then validated; the caller
\* gets the object only when nothing is raised.
NewDataLoader ==
    /\ dl_call = "called"
    /\ dl_raised' = ValidateInputs(dl_args[1], dl_args[2], dl_args[3], dl_now)
    /\ dl_object' = IF dl_raised' = "none"
                    THEN [start_date |-> dl_args[1], end_date |-> dl_args[2],
                          interval |-> dl_args[3]]
                    ELSE <<>>
    /\ dl_call' = "returned"
    /\ UNCHANGED <<dl_args, dl_now>>
    /\ UNCHANGED <<svars, bvars, pvars, zvars>>

LoaderInit ==
    /\ SInit /\ BIdle /\ PIdle /\ ZIdle
    /\ \E start_date \in Dates, end_date \in Dates, interval \in Intervals, now \in Nows :
         LoaderCalled(start_date, end_date, interval, now)

LoaderNext == NewDataLoader

SpecLoader == LoaderInit /\ [][LoaderNext]_vars

Before(d1, d2) ==
    \/ d1[1] < d2[1]
    \/ d1[1] = d2[1] /\ d1[2] < d2[2]
    \/ d1[1] = d2[1] /\ d1[2] = d2[2] /\ d1[3] < d2[3]

\* The calendar days from d1 up to, not including, d2.
DaysFrom(d1, d2) ==
    {d \in UNION {UNION {{<<y, m, dd>> : dd \in 1..DaysInMonth(y, m)} : m \in 1..12} :
                    y \in d1[1]..d2[1]} :
       ~Before(d, d1) /\ Before(d, d2)}

\* C13: constructing a DataLoader raises exactly when start_date is not
\* strictly before end_date, end_date is later than the current time, the
\* interval is not supported, or the interval is intraday and the span
\* exceeds 60 days; otherwise the object holds the three arguments as given.
C13_LoaderValidation ==
    dl_call = "returned" =>
      LET start_date == dl_args[1]
          end_date == dl_args[2]
          interval == dl_args[3]
          rejected ==
            \/ ~Before(start_date, end_date)
            \/ Gt(Num(ToDatetime(end_date)), dl_now)
            \/ interval \notin {"1m", "2m", "5m", "15m", "30m", "60m", "90m", "1h",
                                "1d", "5d", "1wk", "1mo", "3mo"}
            \/ /\ interval \in {"1m", "2m", "5m", "15m", "30m", "60m", "90m", "1h"}
               /\ Cardinality(DaysFrom(start_date, end_date)) > 60
      IN  /\ rejected <=> dl_raised = "ValueError"
          /\ ~rejected =>
               /\ dl_raised = "none"
               /\ dl_object.start_date = start_date
               /\ dl_object.end_date = end_date
               /\ dl_object.interval = interval

\* The case of test_setup: a 31-day range with interval '90m'.
C13_Witness ==
    /\ dl_call = "returned"
    /\ dl_args = <<<<2025, 7, 25>>, <<2025, 8, 25>>, "90m">>
    /\ dl_raised = "none"
    /\ dl_object = [start_date |-> <<2025, 7, 25>>, end_date |-> <<2025, 8, 25>>,
                    interval |-> "90m"]

-----------------------------------------------------------------------------
(* generate_signals: no direct reversal *)

====
